---- MODULE Spec2Model ----
(***************************************************************************)
(* Model of src/slack.ts of clime-slack: the escaped mention codec         *)
(* (SlackUser, SlackChannel), the SlackCommandContext constructor and the  *)
(* isSlackCommandResponse recogniser.                                      *)
(*                                                                         *)
(* A JavaScript string is a sequence of one-character strings.             *)
(***************************************************************************)
EXTENDS Integers, Sequences, FiniteSets, TLC

VARIABLES
    \* ---- mention codec ----
    text,        \* the current text value (input of cast, output of toString)
    textOf,      \* the entity `text` was rendered from by toString, if any
    mention,     \* the current entity value (SlackUser / SlackChannel object)
    parsedFrom,  \* the text `mention` was returned for by cast, if any
    thrown,      \* the error thrown by the last call, if any
    last,        \* the last call made
    acceptedBy,  \* the casts that have accepted the current text
    \* ---- command context ----
    options,           \* the ContextOptions given to the constructor
    contextExtension,  \* the field bag given to the constructor
    context,           \* the properties of the SlackCommandContext object
    phase,             \* "new" before the constructor has run, "constructed" after
    writes,            \* the assignments made to the object since construction
    \* ---- response recogniser ----
    object,      \* the value handed to isSlackCommandResponse
    result,      \* what the call returned or threw
    called       \* whether the call has been made

mentionVars == <<text, textOf, mention, parsedFrom, thrown, last, acceptedBy>>
contextVars == <<options, contextExtension, context, phase, writes>>
responseVars == <<object, result, called>>

vars == <<mentionVars, contextVars, responseVars>>

-----------------------------------------------------------------------------
(* Bounds of the model.                                                    *)

\* longest id and name of an entity constructed directly
MaxSeg == 1
\* longest raw text handed to cast
MaxLen == 4
\* longest run of characters put before or after a well-formed token
MaxPad == 2
\* keys of a field bag that differ from the bag's uniform filling
MaxVary == 1
\* assignments made to a context after its construction
MaxWrites == 1
\* longest attachments array of a handler's return value
MaxAttachments == 1

-----------------------------------------------------------------------------
(* Strings.                                                                *)

\* the delimiters of the escaped syntax, both sigils, two ordinary characters
Alphabet == {"<", ">", "|", "@", "#", "a", "b"}
Plain == {"a", "b"}

StringsOver(chars, n) == UNION {[1..k -> chars] : k \in 0..n}

Contains(s, c) == \E k \in 1..Len(s) : s[k] = c

\* absent values; "null" is no character of Alphabet
NoText == <<"null">>
NoMention == [class |-> "none", id |-> NoText, name |-> NoText]
NoError == [error |-> "none", text |-> NoText, expected |-> "none"]

-----------------------------------------------------------------------------
(* SlackUser and SlackChannel.                                             *)

NewSlackUser(id, name) == [class |-> "SlackUser", id |-> id, name |-> name]

NewSlackChannel(id, name) == [class |-> "SlackChannel", id |-> id, name |-> name]

ExpectedError(t, what) == [error |-> "ExpectedError", text |-> t, expected |-> what]

\* `<@${this.id}|${this.name}>`
SlackUser_toString(this) == <<"<", "@">> \o this.id \o <<"|">> \o this.name \o <<">">>

\* the channel rendered with the user sigil
SlackChannel_toStringUserSigil(this) ==
    <<"<", "@">> \o this.id \o <<"|">> \o this.name \o <<">">>

\* `<#${this.id}|${this.name}>`
SlackChannel_toString(this) == <<"<", "#">> \o this.id \o <<"|">> \o this.name \o <<">">>

NoMatch == <<>>

\* the positions p of the `\|` of the pattern in t for which
\* /^<S([^|]+)\|([^>]+)>$/ matches t, S the sigil: group 1 is t[3..p-1], group 2
\* is t[p+1..Len(t)-1]
MatchSplits(t, sigil) ==
    {p \in 4..(Len(t) - 2) :
        /\ t[1] = "<"
        /\ t[2] = sigil
        /\ \A k \in 3..(p - 1) : t[k] # "|"
        /\ t[p] = "|"
        /\ \A k \in (p + 1)..(Len(t) - 1) : t[k] # ">"
        /\ t[Len(t)] = ">"}

\* the same with * for + in both groups
MatchSplitsStar(t, sigil) ==
    {p \in 3..(Len(t) - 1) :
        /\ t[1] = "<"
        /\ t[2] = sigil
        /\ \A k \in 3..(p - 1) : t[k] # "|"
        /\ t[p] = "|"
        /\ \A k \in (p + 1)..(Len(t) - 1) : t[k] # ">"
        /\ t[Len(t)] = ">"}

\* text.match(/^<S([^|]+)\|([^>]+)>$/): null, or <<groups[0], groups[1], groups[2]>>;
\* the first group is greedy, so the match found is the one with the largest p
Groups(t, splits) ==
    IF splits = {} THEN NoMatch
    ELSE LET p == CHOOSE q \in splits : \A r \in splits : r <= q
         IN  <<t, SubSeq(t, 3, p - 1), SubSeq(t, p + 1, Len(t) - 1)>>

MatchStar(t, sigil) == Groups(t, MatchSplitsStar(t, sigil))

Match(t, sigil) == Groups(t, MatchSplits(t, sigil))

\* new SlackUser(groups[0], groups[1]): the groups taken one too early
SlackUser_castShifted(t) ==
    LET groups == Match(t, "@")
    IN  IF groups = NoMatch
        THEN [thrown |-> ExpectedError(t, "slack user"), value |-> NoMention]
        ELSE [thrown |-> NoError, value |-> NewSlackUser(groups[1], groups[2])]

SlackUser_cast(t) ==
    LET groups == Match(t, "@")
    IN  IF groups = NoMatch
        THEN [thrown |-> ExpectedError(t, "slack user"), value |-> NoMention]
        ELSE [thrown |-> NoError, value |-> NewSlackUser(groups[2], groups[3])]

\* the channel pattern left with the user sigil
SlackChannel_castUserSigil(t) ==
    LET groups == Match(t, "@")
    IN  IF groups = NoMatch
        THEN [thrown |-> ExpectedError(t, "slack channel"), value |-> NoMention]
        ELSE [thrown |-> NoError, value |-> NewSlackChannel(groups[2], groups[3])]

SlackChannel_cast(t) ==
    LET groups == Match(t, "#")
    IN  IF groups = NoMatch
        THEN [thrown |-> ExpectedError(t, "slack channel"), value |-> NoMention]
        ELSE [thrown |-> NoError, value |-> NewSlackChannel(groups[2], groups[3])]

-----------------------------------------------------------------------------
(* The inputs of the codec.                                                *)

Segments == StringsOver(Alphabet, MaxSeg)

\* entities constructed directly: any id and any name
Mentions ==
    {NewSlackUser(i, n) : i \in Segments, n \in Segments}
        \cup {NewSlackChannel(i, n) : i \in Segments, n \in Segments}

PlainSegments == StringsOver(Plain, MaxSeg) \ {<<>>}

\* the tokens of entities whose id and name are non-empty and hold no delimiter
WellFormedTokens ==
    {SlackUser_toString(NewSlackUser(i, n)) : i \in PlainSegments, n \in PlainSegments}
        \cup {SlackChannel_toString(NewSlackChannel(i, n)) :
                i \in PlainSegments, n \in PlainSegments}

Pads == StringsOver(Alphabet, MaxPad) \ {<<>>}

\* raw texts: every short text, and every well-formed token with characters
\* before it or after it
InputTexts ==
    StringsOver(Alphabet, MaxLen)
        \cup {p \o t : p \in Pads, t \in WellFormedTokens}
        \cup {t \o s : t \in WellFormedTokens, s \in Pads}

-----------------------------------------------------------------------------
(* JavaScript values.                                                      *)

Undefined == [type |-> "undefined"]
Null == [type |-> "null"]
JSString(s) == [type |-> "string", value |-> s]
JSNumber(n) == [type |-> "number", value |-> n]
JSTrue == [type |-> "boolean", value |-> "true"]
JSFalse == [type |-> "boolean", value |-> "false"]
JSArray(items) == [type |-> "array", items |-> items]
JSObject(props) == [type |-> "object", props |-> props]
JSFunction(props) == [type |-> "function", props |-> props]

\* a key an object does not have
Absent == [type |-> "absent"]

\* the typeof operator
Typeof(v) ==
    CASE v.type = "undefined" -> "undefined"
      [] v.type = "null" -> "object"
      [] v.type = "array" -> "object"
      [] OTHER -> v.type

\* ToBoolean
Truthy(v) ==
    ~ \/ v = Undefined
      \/ v = Null
      \/ v = JSFalse
      \/ v = JSNumber("0")
      \/ v = JSString("")

\* Array.isArray
IsArray(v) == v.type = "array"

-----------------------------------------------------------------------------
(* SlackCommandContext.                                                    *)

RecognizedFields ==
    {"token", "team_id", "team_domain", "enterprise_id", "enterprise_name",
     "channel_id", "channel_name", "user_id", "user_name", "command", "text",
     "response_url", "trigger_id"}

DerivedFields == {"user", "channel"}

\* the properties the base class Context sets from its options
BaseFields == {"cwd", "commands"}

\* the property names of the model: an object's other keys are stood for by "extra"
Keys == RecognizedFields \cup DerivedFields \cup BaseFields \cup {"extra"}

\* super(options): the base constructor stores cwd and commands
Context(opts) ==
    [k \in Keys |-> IF k = "cwd" THEN opts.cwd
                    ELSE IF k = "commands" THEN opts.commands
                    ELSE Undefined]

\* Object.assign(target, source): every key of source is copied onto target
ObjectAssign(target, source) ==
    [k \in Keys |-> IF source[k] = Absent THEN target[k] ELSE source[k]]

\* the entities derived first and the bag assigned over them
SlackCommandContextAssignLast(opts, extension) ==
    LET this0 == Context(opts)
        this1 == [this0 EXCEPT !["user"] =
                      NewSlackUser(extension["user_id"], extension["user_name"])]
        this2 == [this1 EXCEPT !["channel"] =
                      NewSlackChannel(extension["channel_id"], extension["channel_name"])]
    IN  ObjectAssign(this2, extension)

\* only the recognized fields copied
SlackCommandContextPicked(opts, extension) ==
    LET this0 == Context(opts)
        this1 == ObjectAssign(this0, [k \in Keys |-> IF k \in RecognizedFields
                                                     THEN extension[k] ELSE Absent])
        this2 == [this1 EXCEPT !["user"] =
                      NewSlackUser(this1["user_id"], this1["user_name"])]
    IN  [this2 EXCEPT !["channel"] =
             NewSlackChannel(this2["channel_id"], this2["channel_name"])]

\* the constructor: the properties of the new object
SlackCommandContext(opts, extension) ==
    LET this0 == Context(opts)
        this1 == ObjectAssign(this0, extension)
        this2 == [this1 EXCEPT !["user"] =
                      NewSlackUser(this1["user_id"], this1["user_name"])]
    IN  [this2 EXCEPT !["channel"] =
             NewSlackChannel(this2["channel_id"], this2["channel_name"])]

BagValues == {Absent, JSString("a"), JSString("b")}

RECURSIVE BagsVarying(_)
\* the bags that fill every key alike but for at most n keys
BagsVarying(n) ==
    IF n = 0
    THEN {[k \in Keys |-> d] : d \in {Absent, JSString("a")}}
    ELSE {[b EXCEPT ![k] = v] : b \in BagsVarying(n - 1), k \in Keys, v \in BagValues}

Bags == BagsVarying(MaxVary)

OptionsSet == {[cwd |-> JSString(c), commands |-> JSString("commands")] : c \in {"/", "/home"}}

NoObject == [k \in Keys |-> Absent]

IdleContext ==
    /\ options = [cwd |-> Undefined, commands |-> Undefined]
    /\ contextExtension = NoObject
    /\ context = NoObject
    /\ phase = "idle"
    /\ writes = 0

-----------------------------------------------------------------------------
(* isSlackCommandResponse.                                                 *)

ResponseAttributes == {"text", "attachments", "username", "mrkdwn"}

\* object.name; reading a property of null or undefined throws a TypeError
Get(v, name) ==
    IF v.type \in {"null", "undefined"} THEN [type |-> "TypeError"]
    ELSE IF v.type \in {"object", "function"} /\ v.props[name] # Absent
    THEN v.props[name]
    ELSE Undefined

Returned(v) == [thrown |-> FALSE, value |-> v]
Threw == [thrown |-> TRUE, value |-> Undefined]

JSBoolean(b) == IF b THEN JSTrue ELSE JSFalse

\* the body without its leading `object &&`
isSlackCommandResponseUnguarded(o) ==
    IF Typeof(o) # "object" THEN Returned(JSFalse)
    ELSE IF Get(o, "text").type = "TypeError" THEN Threw
    ELSE Returned(JSBoolean(\/ Typeof(Get(o, "text")) = "string"
                            \/ IsArray(Get(o, "attachments"))))

\* object && typeof object === 'object' && (... || ...): a falsy left operand
\* of && is the value of the expression
isSlackCommandResponse(o) ==
    IF ~Truthy(o) THEN Returned(o)
    ELSE IF Typeof(o) # "object" THEN Returned(JSFalse)
    ELSE IF Get(o, "text").type = "TypeError" THEN Threw
    ELSE Returned(JSBoolean(\/ Typeof(Get(o, "text")) = "string"
                            \/ IsArray(Get(o, "attachments"))))

\* the elements an attachments array may hold: an attachment, or a value that
\* is none
AttachmentElements ==
    {JSObject([k \in ResponseAttributes |-> IF k = "text" THEN JSString("x") ELSE Absent]),
     JSNumber("5")}

Arrays == {JSArray(s) : s \in UNION {[1..n -> AttachmentElements] : n \in 0..MaxAttachments}}

Primitives ==
    {Undefined, Null, JSTrue, JSFalse, JSNumber("0"), JSNumber("5"),
     JSString(""), JSString("hello")}

TextValues == {Absent} \cup Primitives \cup Arrays
UsernameValues == {Absent, JSString("bot"), JSNumber("5")}
MrkdwnValues == {Absent, JSTrue, JSString("hello")}

PropertyBags ==
    {[k \in ResponseAttributes |->
         CASE k = "text" -> t
           [] k = "attachments" -> a
           [] k = "username" -> u
           [] k = "mrkdwn" -> m] :
        t \in TextValues, a \in TextValues, u \in UsernameValues, m \in MrkdwnValues}

\* the values a handler may return
Values ==
    Primitives \cup Arrays
        \cup {JSObject(p) : p \in PropertyBags}
        \cup {JSFunction(p) : p \in PropertyBags}

IdleResponse ==
    /\ object = Undefined
    /\ result = Returned(Undefined)
    /\ called = FALSE

-----------------------------------------------------------------------------
(* The codec as a state machine: a caller holds a text and an entity and   *)
(* calls toString on the entity or a cast on the text.                     *)

IdleMention ==
    /\ text = NoText
    /\ textOf = NoMention
    /\ mention = NoMention
    /\ parsedFrom = NoText
    /\ thrown = NoError
    /\ last = "new"
    /\ acceptedBy = {}

InitMention ==
    /\ IdleContext
    /\ IdleResponse
    /\ \/ mention \in Mentions /\ text = NoText
       \/ mention = NoMention /\ text \in InputTexts
    /\ textOf = NoMention
    /\ parsedFrom = NoText
    /\ thrown = NoError
    /\ last = "new"
    /\ acceptedBy = {}

Rendered(t) ==
    /\ text' = t
    /\ textOf' = mention
    /\ thrown' = NoError
    /\ acceptedBy' = IF t = text THEN acceptedBy ELSE {}
    /\ UNCHANGED <<mention, parsedFrom, contextVars, responseVars>>

Cast(r, class) ==
    /\ thrown' = r.thrown
    /\ mention' = r.value
    /\ parsedFrom' = IF r.thrown = NoError THEN text ELSE NoText
    /\ acceptedBy' = IF r.thrown = NoError THEN acceptedBy \cup {class} ELSE acceptedBy
    /\ UNCHANGED <<text, textOf, contextVars, responseVars>>

UserToString ==
    /\ mention.class = "SlackUser"
    /\ Rendered(SlackUser_toString(mention))
    /\ last' = "SlackUser.toString"

ChannelToString ==
    /\ mention.class = "SlackChannel"
    /\ Rendered(SlackChannel_toString(mention))
    /\ last' = "SlackChannel.toString"

UserCast ==
    /\ text # NoText
    /\ Cast(SlackUser_cast(text), "SlackUser")
    /\ last' = "SlackUser.cast"

ChannelCast ==
    /\ text # NoText
    /\ Cast(SlackChannel_cast(text), "SlackChannel")
    /\ last' = "SlackChannel.cast"

NextMention == UserToString \/ ChannelToString \/ UserCast \/ ChannelCast

SpecMention == InitMention /\ [][NextMention]_vars

-----------------------------------------------------------------------------
(* The context as a state machine: the constructor runs once; afterwards   *)
(* the object's properties, none of them readonly, may be assigned.        *)

InitContext ==
    /\ IdleMention
    /\ IdleResponse
    /\ options \in OptionsSet
    /\ contextExtension \in Bags
    /\ context = NoObject
    /\ phase = "new"
    /\ writes = 0

Construct ==
    /\ phase = "new"
    /\ context' = SlackCommandContext(options, contextExtension)
    /\ phase' = "constructed"
    /\ UNCHANGED <<options, contextExtension, writes, mentionVars, responseVars>>

ProjectedFields == {"user_id", "user_name", "channel_id", "channel_name"}

\* context.field = value
AssignField ==
    /\ phase = "constructed"
    /\ writes < MaxWrites
    /\ \E k \in ProjectedFields, v \in {JSString("a"), JSString("b")} :
           context' = [context EXCEPT ![k] = v]
    /\ writes' = writes + 1
    /\ UNCHANGED <<options, contextExtension, phase, mentionVars, responseVars>>

\* context.user = new SlackUser(id, name)
AssignUser ==
    /\ phase = "constructed"
    /\ writes < MaxWrites
    /\ \E i \in {JSString("a"), JSString("b")}, n \in {JSString("a"), JSString("b")} :
           context' = [context EXCEPT !["user"] = NewSlackUser(i, n)]
    /\ writes' = writes + 1
    /\ UNCHANGED <<options, contextExtension, phase, mentionVars, responseVars>>

\* context.channel = new SlackChannel(id, name)
AssignChannel ==
    /\ phase = "constructed"
    /\ writes < MaxWrites
    /\ \E i \in {JSString("a"), JSString("b")}, n \in {JSString("a"), JSString("b")} :
           context' = [context EXCEPT !["channel"] = NewSlackChannel(i, n)]
    /\ writes' = writes + 1
    /\ UNCHANGED <<options, contextExtension, phase, mentionVars, responseVars>>

NextContext == Construct \/ AssignField \/ AssignUser \/ AssignChannel

SpecContext == InitContext /\ [][NextContext]_vars

-----------------------------------------------------------------------------
(* The recogniser as a state machine: one call on one value.               *)

InitResponse ==
    /\ IdleMention
    /\ IdleContext
    /\ object \in Values
    /\ result = Returned(Undefined)
    /\ called = FALSE

Recognize ==
    /\ ~called
    /\ result' = isSlackCommandResponse(object)
    /\ called' = TRUE
    /\ UNCHANGED <<object, mentionVars, contextVars>>

NextResponse == Recognize

SpecResponse == InitResponse /\ [][NextResponse]_vars

-----------------------------------------------------------------------------
(* Properties of the codec, checked under SpecMention.                     *)

IsCast == last \in {"SlackUser.cast", "SlackChannel.cast"}
IsToString == last \in {"SlackUser.toString", "SlackChannel.toString"}
CastClass == IF last = "SlackUser.cast" THEN "SlackUser" ELSE "SlackChannel"

\* s holds none of the delimiters < > |
Clean(s) == ~Contains(s, "<") /\ ~Contains(s, ">") /\ ~Contains(s, "|")

\* the cast just made was given the rendering of an entity of its own class
\* whose id and name hold no delimiter
CastOfCleanRendering ==
    /\ IsCast
    /\ textOf # NoMention
    /\ textOf.class = CastClass
    /\ Clean(textOf.id)
    /\ Clean(textOf.name)

\* C1 as stated: for every id and name holding none of < > |, casting the
\* rendering of an entity with the cast of its class succeeds and returns an
\* entity with that id and that name.
C1_RoundTripEveryIdAndName ==
    CastOfCleanRendering => thrown = NoError /\ mention = textOf

\* C1 amended: for every non-empty id and non-empty name holding none of
\* < > |, casting the rendering of an entity with the cast of its class
\* succeeds and returns an entity with that id and that name; when the id or
\* the name is empty the rendering is rejected.
C1_RoundTrip ==
    CastOfCleanRendering =>
        IF textOf.id # <<>> /\ textOf.name # <<>>
        THEN thrown = NoError /\ mention = textOf
        ELSE thrown.error = "ExpectedError" /\ mention = NoMention

C1_RoundTripWitness ==
    /\ last = "SlackUser.cast"
    /\ textOf = NewSlackUser(<<"a">>, <<"b">>)
    /\ text = <<"<", "@", "a", "|", "b", ">">>
    /\ mention = textOf

\* C4: the rendering of a channel is rejected by SlackUser.cast and the
\* rendering of a user by SlackChannel.cast, each with an ExpectedError naming
\* the text and the expected variant; no text is accepted by both casts.
C4_SigilDiscrimination ==
    /\ (last = "SlackUser.cast" /\ textOf.class = "SlackChannel")
           => thrown = ExpectedError(text, "slack user")
    /\ (last = "SlackChannel.cast" /\ textOf.class = "SlackUser")
           => thrown = ExpectedError(text, "slack channel")
    /\ Cardinality(acceptedBy) <= 1

C4_SigilDiscriminationWitness ==
    /\ last = "SlackUser.cast"
    /\ textOf = NewSlackChannel(<<"a">>, <<"b">>)
    /\ text = <<"<", "#", "a", "|", "b", ">">>
    /\ thrown.error = "ExpectedError"
    /\ acceptedBy = {"SlackChannel"}

\* t holds a well-formed token with at least one character before or after it
HasPaddedToken(t) ==
    \E i \in 1..Len(t), j \in 1..Len(t) :
        /\ i <= j
        /\ i > 1 \/ j < Len(t)
        /\ SubSeq(t, i, j) \in WellFormedTokens

\* C5: a cast never accepts a text that holds a well-formed token together
\* with characters before or after it.
C5_Anchoring ==
    (IsCast /\ HasPaddedToken(text)) => thrown.error = "ExpectedError"

\* the position of the first | of t
FirstBar(t) == CHOOSE p \in 1..Len(t) : t[p] = "|" /\ \A k \in 1..(p - 1) : t[k] # "|"

\* t has the shape of a token, < sigil id | name >, with an empty id segment
\* or an empty name segment
HasEmptySegment(t) ==
    /\ Len(t) >= 4
    /\ t[1] = "<"
    /\ t[2] \in {"@", "#"}
    /\ t[Len(t)] = ">"
    /\ Contains(SubSeq(t, 3, Len(t) - 1), "|")
    /\ FirstBar(t) = 3 \/ FirstBar(t) = Len(t) - 1

\* C6: a token with an empty id segment or an empty name segment is rejected
\* by both casts, and every entity a cast returns has a non-empty id and a
\* non-empty name.
C6_EmptySegmentRejection ==
    IsCast =>
        /\ HasEmptySegment(text) => thrown.error = "ExpectedError"
        /\ thrown = NoError => mention.id # <<>> /\ mention.name # <<>>

C6_EmptySegmentRejectionWitness ==
    /\ last = "SlackUser.cast"
    /\ text = <<"<", "@", "|", "a", ">">>
    /\ thrown = ExpectedError(text, "slack user")
    /\ mention = NoMention

\* C10: rendering the entity a cast returned reproduces the text the cast was
\* given; the id returned is the text between the sigil and the first | and
\* holds no |, the name returned is the text after that | up to the final >
\* and holds no >.
C10_ReverseRoundTrip ==
    /\ (IsToString /\ parsedFrom # NoText) => text = parsedFrom
    /\ (IsCast /\ thrown = NoError) =>
           /\ mention.class = CastClass
           /\ mention.id = SubSeq(text, 3, FirstBar(text) - 1)
           /\ ~Contains(mention.id, "|")
           /\ mention.name = SubSeq(text, FirstBar(text) + 1, Len(text) - 1)
           /\ ~Contains(mention.name, ">")

C10_ReverseRoundTripWitness ==
    /\ last = "SlackChannel.toString"
    /\ parsedFrom = <<"<", "#", "a", "|", "|", ">">>
    /\ mention = NewSlackChannel(<<"a">>, <<"|">>)
    /\ text = parsedFrom

-----------------------------------------------------------------------------
(* Properties of the context, checked under SpecContext.                   *)

\* what reading key k of the bag gives
BagValue(k) == IF contextExtension[k] = Absent THEN Undefined ELSE contextExtension[k]

JustConstructed == phase = "constructed" /\ writes = 0

\* C3: right after construction every recognized field equals its bag value,
\* user is a SlackUser of user_id and user_name and channel a SlackChannel of
\* channel_id and channel_name, whatever the bag holds under user and channel.
C3_ContextDerivation ==
    JustConstructed =>
        /\ \A k \in RecognizedFields : context[k] = BagValue(k)
        /\ context["user"] = NewSlackUser(BagValue("user_id"), BagValue("user_name"))
        /\ context["channel"] =
               NewSlackChannel(BagValue("channel_id"), BagValue("channel_name"))

C3_ContextDerivationWitness ==
    /\ JustConstructed
    /\ contextExtension["user"] = JSString("a")
    /\ contextExtension["channel"] = JSString("a")
    /\ contextExtension["user_id"] = JSString("b")
    /\ context["user_id"] = JSString("b")
    /\ context["user"] = NewSlackUser(JSString("b"), JSString("a"))
    /\ context["channel"] = NewSlackChannel(JSString("a"), JSString("a"))

\* C8: in every state of a constructed context, also after assignments to
\* its properties, user and channel are the projections of the raw fields.
C8_ContextConsistency ==
    phase = "constructed" =>
        /\ context["user"].id = context["user_id"]
        /\ context["user"].name = context["user_name"]
        /\ context["channel"].id = context["channel_id"]
        /\ context["channel"].name = context["channel_name"]

\* C9 as stated: the keys of the bag that are no recognized field have no
\* effect; every property other than the recognized and the derived ones is
\* as super(options) left it.
C9_ExtraKeysIgnored ==
    JustConstructed =>
        \A k \in Keys \ (RecognizedFields \cup DerivedFields) :
            context[k] = Context(options)[k]

\* C9 amended: every key of the bag other than user and channel, recognized
\* or not, is copied onto the context, adding a property or overwriting the
\* one super(options) set; the bag's user and channel alone have no effect.
C9_ExtraKeysCopied ==
    JustConstructed =>
        /\ \A k \in Keys \ DerivedFields :
               context[k] = IF contextExtension[k] = Absent
                            THEN Context(options)[k]
                            ELSE contextExtension[k]
        /\ context["user"] = NewSlackUser(context["user_id"], context["user_name"])
        /\ context["channel"] =
               NewSlackChannel(context["channel_id"], context["channel_name"])

C9_ExtraKeysCopiedWitness ==
    /\ JustConstructed
    /\ contextExtension["extra"] = JSString("b")
    /\ context["extra"] = JSString("b")
    /\ context["cwd"] = JSString("a")
    /\ options.cwd = JSString("/")

-----------------------------------------------------------------------------
(* Properties of the recogniser, checked under SpecResponse.               *)

\* v is a non-null value of object kind
IsStructured(v) == v.type \in {"object", "array"}

\* property name of v is present and satisfies nothing but having type t
HasProperty(v, name, t) ==
    /\ v.type = "object"
    /\ v.props[name] # Absent
    /\ v.props[name].type = t

\* C2: the result is truthy exactly when the value is a non-null object whose
\* text is a string or whose attachments is an array, whatever its username,
\* its mrkdwn and the elements of attachments are; the call does not throw.
C2_Recognition ==
    called =>
        /\ ~result.thrown
        /\ Truthy(result.value) <=>
               /\ IsStructured(object)
               /\ \/ HasProperty(object, "text", "string")
                  \/ HasProperty(object, "attachments", "array")

C2_RecognitionWitness ==
    /\ called
    /\ object = JSObject([k \in ResponseAttributes |->
                             CASE k = "text" -> JSString("")
                               [] k = "attachments" -> Absent
                               [] k = "username" -> JSNumber("5")
                               [] k = "mrkdwn" -> Absent])
    /\ result = Returned(JSTrue)

\* C7: for every value the call returns the boolean true or the boolean
\* false, and never throws.
C7_BooleanResult ==
    called => ~result.thrown /\ result.value \in {JSTrue, JSFalse}

====
